---- MODULE Spec2Model ----
(***************************************************************************)
(* State-machine model of the game server in src/client/client.go          *)
(* (package main starting at line 783): the shared grid and its location   *)
(* indices, the spawn/despawn scheduler, the connection registry, the      *)
(* per-connection session handler and the battle engine.                   *)
(*                                                                         *)
(* Representation.                                                         *)
(*  - A location key "x-y" is the pair <<x, y>>.                           *)
(*  - A Go map is a function whose DOMAIN is the set of its keys.          *)
(*  - A Pokemon struct value copied out of POKEMONS shares the Stats map   *)
(*    of the catalog entry (maps are reference types), and no other field  *)
(*    is ever written.  A copy is therefore modelled as the 1-based        *)
(*    position of the entry in POKEMONS, and its stats are read through    *)
(*    POKEMONS.                                                            *)
(*  - sent holds the messages written by the latest step, in order;        *)
(*    last names the latest step.                                          *)
(***************************************************************************)
EXTENDS Integers, Sequences, FiniteSets, TLC

VARIABLES
    POKEMONS,            \* catalog: sequence of [ID, Speed, Attack, Defense, HP]
    PLAYERS,             \* username -> owned PokeBalls (catalog positions)
    players_json,        \* the PLAYERS list last written to players.json
    broken,              \* connections on which a Write returns an error
    written,             \* client: the documents the server wrote to it
    wire,                \* client: the data of the reads still to come
    handled,             \* client: the pairs handleServerMessage has seen
    reading,             \* client: readFromServer is in its loop
    BOARD,               \* key -> "" | pokemon id | username
    POKEMON_LOCATIONS,   \* key -> pokemon id
    PLAYER_LOCATIONS,    \* key -> username
    despawnQueues,       \* sequence of keys
    CONNECTIONS,         \* username -> connection
    pokeBalls_P1,        \* roster of P1 (catalog positions)
    pokeBalls_P2,        \* roster of P2
    currentDefIndex_P1,
    currentDefIndex_P2,
    P1,
    P2,
    player1Turn,
    connState,           \* connection -> position of its worker
    schedPc,             \* position of the scheduler worker
    schedI,              \* loop index of a despawn tick in progress
    alive,               \* the server process is running
    nTicks,              \* timer ticks handled so far
    nMsgs,               \* in-game messages handled so far
    sent,                \* messages written by the latest step
    last,                \* the latest step
    atkValue,            \* attackEnemy's atkValue of the latest attack
    defValue,            \* attackEnemy's defValue of the latest attack
    damage               \* attackEnemy's damage of the latest attack

vars == <<POKEMONS, PLAYERS, players_json, BOARD, POKEMON_LOCATIONS, PLAYER_LOCATIONS,
          despawnQueues, CONNECTIONS, pokeBalls_P1, pokeBalls_P2,
          currentDefIndex_P1, currentDefIndex_P2, P1, P2, player1Turn,
          connState, schedPc, schedI, alive, nTicks, nMsgs, sent, last,
          atkValue, defValue, damage, broken, written, wire, handled,
          reading>>

calcVars == <<atkValue, defValue, damage>>

clientVars == <<written, wire, handled, reading>>

worldVars == <<BOARD, POKEMON_LOCATIONS, PLAYER_LOCATIONS, despawnQueues>>

battleVars == <<pokeBalls_P1, pokeBalls_P2, currentDefIndex_P1,
                currentDefIndex_P2, P1, P2, player1Turn>>

----------------------------------------------------------------------------
(* Bounds of the model. *)

ROWS == 1
COLS == 2
NUMBERTOPROCESS == 1
CatalogSize == 2
NumConns == 2
MaxTicks == 2
MaxMsgs == 2
MaxRoster == 4
MaxSlot == 1

(* Data of the model. *)

Users == {"ash", "gary", "misty"}
UserOrder == <<"ash", "gary", "misty">>
Conns == 1..NumConns
Keys == (0..(ROWS - 1)) \X (0..(COLS - 1))
NoKey == <<>>
(* the key "4-5" of the surrender branch, a cell of the 10 x 18 grid, in the
   grid of the model *)
SurrenderKey == <<0, 1>>

----------------------------------------------------------------------------
(* Helpers: strings of digits, Go maps, Go slices. *)

Digits == <<"1", "2", "3", "4", "5", "6", "7", "8", "9">>

Itoa(n) == Digits[n]

Atoi(s) == IF \E n \in 1..Len(Digits) : Digits[n] = s
           THEN CHOOSE n \in 1..Len(Digits) : Digits[n] = s
           ELSE 0

isNumber(s) == s = "0" \/ \E n \in 1..Len(Digits) : Digits[n] = s

EmptyMap == [x \in {} |-> ""]

MapPut(m, k, v) == [x \in (DOMAIN m) \cup {k} |-> IF x = k THEN v ELSE m[x]]

MapDel(m, k) == [x \in (DOMAIN m) \ {k} |-> m[x]]

RemoveAt(s, i) == [j \in 1..(Len(s) - 1) |-> IF j < i THEN s[j] ELSE s[j + 1]]

Msg(to, kind, body) == [to |-> to, kind |-> kind, body |-> body]

Step(op, conn, key, name, n, outcome) ==
    [op |-> op, conn |-> conn, key |-> key, name |-> name, n |-> n,
     outcome |-> outcome]

(* for _, tcpConn := range CONNECTIONS { tcpConn.Write(body) }, skipping
   the connection `except` *)
Broadcast(conns, except, kind, body) ==
    LET us == SelectSeq(UserOrder,
                        LAMBDA u : u \in DOMAIN conns /\ conns[u] /= except)
    IN  [i \in 1..Len(us) |-> Msg(conns[us[i]], kind, body)]

(* for name, connection := range CONNECTIONS { if connection == conn } *)
UsernameOf(c) ==
    IF \E u \in DOMAIN CONNECTIONS : CONNECTIONS[u] = c
    THEN CHOOSE u \in DOMAIN CONNECTIONS : CONNECTIONS[u] = c
    ELSE ""

----------------------------------------------------------------------------
(* The Go int of the server's build: a 64-bit two's complement word, held
   as IntLimbs limbs of 16 bits, least significant first.  WideLimbs limbs
   hold every sum and product of the model without wrapping. *)

LimbBase == 65536
IntLimbs == 4
WideLimbs == 6

(* the word of a number 0 .. 2^31 - 1 *)
Int64(n) == [i \in 1..IntLimbs |->
                IF i = 1 THEN n % LimbBase
                ELSE IF i = 2 THEN n \div LimbBase ELSE 0]

(* the number of a word 0 .. 2^31 - 1 *)
IntOf(w) == w[1] + LimbBase * w[2]

IsNegative(w) == w[Len(w)] >= LimbBase \div 2

IsZero(w) == \A i \in 1..Len(w) : w[i] = 0

(* the same value in a word of n limbs, n >= Len(w) *)
SignExtend(w, n) ==
    [i \in 1..n |-> IF i <= Len(w) THEN w[i]
                    ELSE IF IsNegative(w) THEN LimbBase - 1 ELSE 0]

RECURSIVE MulCarry(_, _, _, _)
MulCarry(w, c, i, carry) ==
    IF i > Len(w) THEN <<>>
    ELSE <<(w[i] * c + carry) % LimbBase>>
         \o MulCarry(w, c, i + 1, (w[i] * c + carry) \div LimbBase)

(* w * c for a constant 0 <= c < 2^15, wrapping at the width of w *)
MulWord(w, c) == MulCarry(w, c, 1, 0)

RECURSIVE SubBorrow(_, _, _, _)
SubBorrow(a, b, i, borrow) ==
    IF i > Len(a) THEN <<>>
    ELSE IF a[i] - b[i] - borrow < 0
         THEN <<a[i] - b[i] - borrow + LimbBase>> \o SubBorrow(a, b, i + 1, 1)
         ELSE <<a[i] - b[i] - borrow>> \o SubBorrow(a, b, i + 1, 0)

(* a - b, wrapping at the width of a and b *)
SubWord(a, b) == SubBorrow(a, b, 1, 0)

(* w < 1 *)
LessThanOne(w) == IsNegative(w) \/ IsZero(w)

EmptyCells(board) == {k \in Keys : board[k] = ""}

----------------------------------------------------------------------------
(* generateRandomPokemons: the cells and the ids drawn by rand.Intn.       *)

(* The key sequences a run of `num` iterations can append: pairwise
   distinct empty cells, because an iteration fills the cell it draws. *)
SpawnCells(board, num) ==
    {f \in [1..num -> EmptyCells(board)] :
        \A i, j \in 1..num : i /= j => f[i] /= f[j]}

SpawnIds(num) == [1..num -> {POKEMONS[i].ID : i \in 1..Len(POKEMONS)}]

BoardAfterSpawn(board, cells, ids) ==
    [k \in Keys |-> IF \E i \in DOMAIN cells : cells[i] = k
                    THEN ids[CHOOSE i \in DOMAIN cells : cells[i] = k]
                    ELSE board[k]]

SpawnedLocations(cells, ids) ==
    [k \in {cells[i] : i \in DOMAIN cells} |->
        ids[CHOOSE i \in DOMAIN cells : cells[i] = k]]

MapMerge(m, n) ==
    [x \in (DOMAIN m) \cup (DOMAIN n) |-> IF x \in DOMAIN n THEN n[x] ELSE m[x]]

----------------------------------------------------------------------------
(* The catalog of the world specification. *)

(* pokedex.json as written by src/pokedex/main.go: entry i (1-based) has the
   national id i.  The numeric strings of Stats are represented by their
   values: strconv.Atoi and strconv.Itoa are exact inverses on them.  The
   stats are chosen so that an attack can be floored to 1 (Attack 1 against
   Defense 1000), can leave its target standing (damage 2 against HP 3) and
   can make it faint. *)
Catalog ==
    [i \in 1..CatalogSize |->
        IF i = 1
        THEN [ID |-> Itoa(i), Speed |-> 80, Attack |-> 1, Defense |-> 48,
              HP |-> 3]
        ELSE [ID |-> Itoa(i), Speed |-> 60, Attack |-> 2, Defense |-> 1000,
              HP |-> 1]]

InitCommon ==
    /\ PLAYERS = [u \in Users |-> <<>>]
    /\ players_json = PLAYERS
    /\ broken = {}
    /\ PLAYER_LOCATIONS = EmptyMap
    /\ CONNECTIONS = EmptyMap
    /\ pokeBalls_P1 = <<>>
    /\ pokeBalls_P2 = <<>>
    /\ currentDefIndex_P1 = 0
    /\ currentDefIndex_P2 = 0
    /\ P1 = ""
    /\ P2 = ""
    /\ player1Turn = TRUE
    /\ connState = [c \in Conns |-> "none"]
    /\ schedPc = "idle"
    /\ schedI = 0
    /\ alive = TRUE
    /\ nTicks = 0
    /\ nMsgs = 0
    /\ sent = <<>>
    /\ last = Step("main", 0, NoKey, "", 0, {})

(* a client that has been sent nothing *)
InitIdleClient ==
    /\ written = <<>>
    /\ wire = <<>>
    /\ handled = <<>>
    /\ reading = TRUE

(* main: the board is empty, then generateRandomPokemons(5). *)
(* no attack has run: the locals of attackEnemy hold no value yet *)
InitCalc ==
    /\ atkValue = Int64(0)
    /\ defValue = Int64(0)
    /\ damage = Int64(0)

Init ==
    /\ POKEMONS = Catalog
    /\ InitCommon
    /\ InitCalc
    /\ InitIdleClient
    /\ \E cells \in SpawnCells([k \in Keys |-> ""], NUMBERTOPROCESS) :
       \E ids \in SpawnIds(NUMBERTOPROCESS) :
          /\ BOARD = BoardAfterSpawn([k \in Keys |-> ""], cells, ids)
          /\ POKEMON_LOCATIONS = SpawnedLocations(cells, ids)
          /\ despawnQueues = cells

----------------------------------------------------------------------------
(* handlePokemons: the spawn tick. *)

SpawnTick ==
    /\ alive
    /\ schedPc = "idle"
    /\ nTicks < MaxTicks
    /\ nTicks' = nTicks + 1
    /\ UNCHANGED nMsgs
    /\ Cardinality(EmptyCells(BOARD)) >= NUMBERTOPROCESS
    /\ \E cells \in SpawnCells(BOARD, NUMBERTOPROCESS) :
       \E ids \in SpawnIds(NUMBERTOPROCESS) :
          /\ BOARD' = BoardAfterSpawn(BOARD, cells, ids)
          /\ POKEMON_LOCATIONS' =
                 MapMerge(POKEMON_LOCATIONS, SpawnedLocations(cells, ids))
          /\ despawnQueues' = despawnQueues \o cells
          /\ sent' = Broadcast(CONNECTIONS, 0, "spawned",
                               SpawnedLocations(cells, ids))
    /\ last' = Step("spawn", 0, NoKey, "", 0, {})
    /\ UNCHANGED <<calcVars, clientVars, broken,
                   POKEMONS, PLAYERS, players_json, PLAYER_LOCATIONS,
                   CONNECTIONS,
                   battleVars, connState, schedPc, schedI, alive>>

(* The inner for-loop of generateRandomPokemons never ends once no cell of
   BOARD is empty: the iterations that found a cell have filled it, and the
   scheduler worker draws coordinates forever. *)
SpawnTickHangs ==
    /\ alive
    /\ schedPc = "idle"
    /\ nTicks < MaxTicks
    /\ nTicks' = nTicks + 1
    /\ UNCHANGED nMsgs
    /\ Cardinality(EmptyCells(BOARD)) < NUMBERTOPROCESS
    /\ \E cells \in SpawnCells(BOARD, Cardinality(EmptyCells(BOARD))) :
       \E ids \in SpawnIds(Cardinality(EmptyCells(BOARD))) :
          /\ BOARD' = BoardAfterSpawn(BOARD, cells, ids)
          /\ POKEMON_LOCATIONS' =
                 MapMerge(POKEMON_LOCATIONS, SpawnedLocations(cells, ids))
          /\ despawnQueues' = despawnQueues \o cells
    /\ schedPc' = "hung"
    /\ sent' = <<>>
    /\ last' = Step("spawn", 0, NoKey, "", 0, {"hung"})
    /\ UNCHANGED <<calcVars, clientVars, broken,
                   POKEMONS, PLAYERS, players_json, PLAYER_LOCATIONS,
                   CONNECTIONS,
                   battleVars, connState, schedI, alive>>

----------------------------------------------------------------------------
(* handlePokemons: the despawn tick. *)

(* if len(despawnQueues) < NUMBERTOPROCESS { continue } *)
DespawnSkips(queue) == Len(queue) < NUMBERTOPROCESS

(* location := despawnQueues[i], for i = 0 .. NUMBERTOPROCESS-1 *)
DespawnBatch(queue) == SubSeq(queue, 1, NUMBERTOPROCESS)

(* a tick that slices the queue from the wrong end *)
QueueAfterDespawn_Newest(queue) == SubSeq(queue, 1, Len(queue) - NUMBERTOPROCESS)

(* despawnQueues = despawnQueues[NUMBERTOPROCESS:] *)
QueueAfterDespawn(queue) == SubSeq(queue, NUMBERTOPROCESS + 1, Len(queue))

(* BOARD[x][y] = "" for every location of the batch *)
BoardCleared(board, batch) ==
    [k \in Keys |-> IF \E i \in DOMAIN batch : batch[i] = k
                    THEN "" ELSE board[k]]

(* delete(POKEMON_LOCATIONS, location) for every location of the batch *)
LocationsCleared(locs, batch) ==
    [k \in (DOMAIN locs) \ {batch[i] : i \in DOMAIN batch} |-> locs[k]]

(* despawnedPokemonLocations[location] = "" *)
DespawnedLocations(batch) == [k \in {batch[i] : i \in DOMAIN batch} |-> ""]

(* a tick that skips the loop but falls through to the broadcast *)
DespawnSkipped_Broadcasts ==
    /\ sent' = Broadcast(CONNECTIONS, 0, "despawned", EmptyMap)
    /\ last' = Step("despawn", 0, NoKey, "", 0, {"skipped"})
    /\ UNCHANGED worldVars

(* continue: the tick ends before the loop, the slice and the broadcast *)
DespawnSkipped ==
    /\ sent' = <<>>
    /\ last' = Step("despawn", 0, NoKey, "", 0, {"skipped"})
    /\ UNCHANGED worldVars

DespawnTick ==
    /\ alive
    /\ schedPc = "idle"
    /\ nTicks < MaxTicks
    /\ nTicks' = nTicks + 1
    /\ UNCHANGED nMsgs
    /\ IF DespawnSkips(despawnQueues)
       THEN DespawnSkipped
       ELSE /\ BOARD' = BoardCleared(BOARD, DespawnBatch(despawnQueues))
            /\ POKEMON_LOCATIONS' =
                   LocationsCleared(POKEMON_LOCATIONS,
                                    DespawnBatch(despawnQueues))
            /\ despawnQueues' = QueueAfterDespawn(despawnQueues)
            /\ sent' = Broadcast(CONNECTIONS, 0, "despawned",
                           DespawnedLocations(DespawnBatch(despawnQueues)))
            /\ last' = Step("despawn", 0, NoKey, "", 0, {})
            /\ UNCHANGED PLAYER_LOCATIONS
    /\ UNCHANGED <<calcVars, clientVars, broken,
                   POKEMONS, PLAYERS, players_json, CONNECTIONS,
                   battleVars, connState, schedPc, schedI, alive>>

----------------------------------------------------------------------------
(* handleAuthConnection *)

(* listener.Accept: c is the connection accepted next; connections are
   numbered in the order in which their workers start. *)
NextAccepted(c) ==
    /\ connState[c] = "none"
    /\ \A d \in Conns : d < c => connState[d] /= "none"

(* loadPokemons: the ids of the account's PokeBalls *)
OwnedIds(u) == [j \in 1..Len(PLAYERS[u]) |-> POKEMONS[PLAYERS[u][j]].ID]

(* verifyPlayer succeeds; the worker registers the connection, sends the
   creature locations, places the player and broadcasts the player
   locations, then enters HandleInGameConnection. *)
Login(c, u) ==
    /\ alive
    /\ NextAccepted(c)
    /\ UNCHANGED <<nTicks, nMsgs>>
    /\ EmptyCells(BOARD) /= {}
    /\ CONNECTIONS' = MapPut(CONNECTIONS, u, c)
    /\ \E k \in EmptyCells(BOARD) :
          /\ BOARD' = [BOARD EXCEPT ![k] = u]
          /\ PLAYER_LOCATIONS' = MapPut(PLAYER_LOCATIONS, k, u)
          /\ last' = Step("login", c, k, u, 0, {})
    /\ sent' = <<Msg(c, "auth", "successful"), Msg(c, "owned", OwnedIds(u)),
                 Msg(c, "pokelocs", POKEMON_LOCATIONS)>>
               \o Broadcast(CONNECTIONS', 0, "playerlocs", PLAYER_LOCATIONS')
    /\ connState' = [connState EXCEPT ![c] = "ingame"]
    /\ UNCHANGED <<calcVars, clientVars, broken,
                   POKEMONS, PLAYERS, players_json, POKEMON_LOCATIONS,
                   despawnQueues,
                   battleVars, schedPc, schedI, alive>>

(* placePlayerOnBoard never returns when no cell of BOARD is empty: the
   connection is registered and its worker draws coordinates forever. *)
LoginHangs(c, u) ==
    /\ alive
    /\ NextAccepted(c)
    /\ UNCHANGED <<nTicks, nMsgs>>
    /\ EmptyCells(BOARD) = {}
    /\ CONNECTIONS' = MapPut(CONNECTIONS, u, c)
    /\ sent' = <<Msg(c, "auth", "successful"), Msg(c, "owned", OwnedIds(u)),
                 Msg(c, "pokelocs", POKEMON_LOCATIONS)>>
    /\ connState' = [connState EXCEPT ![c] = "hung"]
    /\ last' = Step("login", c, NoKey, u, 0, {"hung"})
    /\ UNCHANGED <<calcVars, clientVars, broken,
                   POKEMONS, PLAYERS, players_json,
                   worldVars, battleVars, schedPc, schedI,
                   alive>>

(* infoReader.ReadString fails (the peer closed before sending both
   lines): checkError calls os.Exit(1). *)
AuthReadFails(c) ==
    /\ alive
    /\ NextAccepted(c)
    /\ UNCHANGED <<nTicks, nMsgs>>
    /\ alive' = FALSE
    /\ sent' = <<>>
    /\ connState' = [connState EXCEPT ![c] = "closed"]
    /\ last' = Step("authread", c, NoKey, "", 0, {"exit"})
    /\ UNCHANGED <<calcVars, clientVars, broken,
                   POKEMONS, PLAYERS, players_json,
                   worldVars, CONNECTIONS,
                   battleVars, schedPc, schedI>>

(* verifyPlayer fails: the worker answers "failed" and returns. *)
LoginFails(c) ==
    /\ alive
    /\ NextAccepted(c)
    /\ UNCHANGED <<nTicks, nMsgs>>
    /\ sent' = <<Msg(c, "auth", "failed")>>
    /\ connState' = [connState EXCEPT ![c] = "closed"]
    /\ last' = Step("loginfail", c, NoKey, "", 0, {})
    /\ UNCHANGED <<calcVars, clientVars, broken,
                   POKEMONS, PLAYERS, players_json,
                   worldVars, CONNECTIONS, battleVars,
                   schedPc, schedI, alive>>

----------------------------------------------------------------------------
(* The peer of connection c resets it while the worker of c waits in its
   read: from now on a Write on c returns an error.  The server writes with
   tcpConn.Write(...) and conn.Write(...) as statements, so no handler
   reads that error; the worker of c learns of the reset by the error of
   its read (Disconnect). *)
PeerResets(c) ==
    /\ alive
    /\ connState[c] = "ingame"
    /\ c \notin broken
    /\ broken' = broken \cup {c}
    /\ sent' = <<>>
    /\ last' = Step("reset", c, NoKey, "", 0, {})
    /\ UNCHANGED <<calcVars, clientVars, POKEMONS, PLAYERS, players_json,
                   worldVars, CONNECTIONS, battleVars, connState, schedPc,
                   schedI, alive, nTicks, nMsgs>>

----------------------------------------------------------------------------
(* removeConnectionAndNotify, called when the read of
   HandleInGameConnection fails. *)

LocationsWithout(locs, username) ==
    [k \in {x \in DOMAIN locs : locs[x] /= username} |-> locs[k]]

Disconnect(c) ==
    /\ alive
    /\ connState[c] = "ingame"
    /\ UNCHANGED <<nTicks, nMsgs>>
    /\ IF \E u \in DOMAIN CONNECTIONS : CONNECTIONS[u] = c
       THEN /\ PLAYER_LOCATIONS' =
                   LocationsWithout(PLAYER_LOCATIONS, UsernameOf(c))
            /\ CONNECTIONS' = MapDel(CONNECTIONS, UsernameOf(c))
            /\ sent' = Broadcast(CONNECTIONS', 0, "quit", UsernameOf(c))
       ELSE /\ UNCHANGED <<PLAYER_LOCATIONS, CONNECTIONS>>
            /\ sent' = <<>>
    /\ connState' = [connState EXCEPT ![c] = "closed"]
    /\ last' = Step("disconnect", c, NoKey, UsernameOf(c), 0, {})
    /\ UNCHANGED <<calcVars, clientVars, broken,
                   POKEMONS, PLAYERS, players_json, BOARD,
                   POKEMON_LOCATIONS,
                   despawnQueues, battleVars, schedPc, schedI, alive>>

----------------------------------------------------------------------------
(* handleMovementOrEncounter with catchPokemon and initiateBattle *)

(* if pokemonID, exists := POKEMON_LOCATIONS[playerCoord]; exists *)
CatchBranch(pokemonAt) == pokemonAt

(* the second test as an `if` of its own instead of an `else if` *)
BattleBranch_NoElse(pokemonAt, playerAt) == playerAt

(* else if enemyName, exists := PLAYER_LOCATIONS[playerCoord]; exists *)
BattleBranch(pokemonAt, playerAt) == ~pokemonAt /\ playerAt

(* if !*battleStatus *)
MoveBranch(battleStatus) == ~battleStatus

(* PLAYERS[i].Username == username for some i *)
IsAccount(username) == username \in Users

(* POKEMONS[pokeID] of catchPokemon, as a 1-based position; 0 when the Go
   index is out of range *)
CaughtPosition(pokemonID) ==
    IF Atoi(pokemonID) + 1 <= Len(POKEMONS) THEN Atoi(pokemonID) + 1 ELSE 0

(* The handler for the message of connection c naming key k; pre holds the
   messages the caller has written before the call.  createFails is the
   outcome of os.Create("players.json") in catchPokemon: on an error the
   handler ends the process with log.Fatal, after the acknowledgement and
   the append to PLAYERS and before anything else. *)
HandleMovementOrEncounter(c, k, pre, op, name) ==
    LET this == UsernameOf(c)
        olds == {l \in DOMAIN PLAYER_LOCATIONS : PLAYER_LOCATIONS[l] = this}
    IN
    \E old \in (IF olds = {} THEN {NoKey} ELSE olds), createFails \in BOOLEAN :
      LET locs1 == IF old = NoKey THEN PLAYER_LOCATIONS
                   ELSE MapDel(PLAYER_LOCATIONS, old)
          catch == CatchBranch(k \in DOMAIN POKEMON_LOCATIONS)
          battle == BattleBranch(k \in DOMAIN POKEMON_LOCATIONS,
                                 k \in DOMAIN locs1)
          battleStatus == catch \/ battle
          move == MoveBranch(battleStatus)
          outcome == (IF catch THEN {"catch"} ELSE {})
                     \cup (IF battle THEN {"battle"} ELSE {})
                     \cup (IF move THEN {"move"} ELSE {})
          pokemonID == POKEMON_LOCATIONS[k]
          enemy == locs1[k]
          catchPanics == catch /\ IsAccount(this)
                         /\ CaughtPosition(pokemonID) = 0
          battlePanics == battle /\ enemy \notin DOMAIN CONNECTIONS
          catchFatal == catch /\ ~catchPanics /\ createFails
          caughtMsg == <<Msg(c, "caught", <<this, pokemonID>>)>>
          goneMsgs == Broadcast(CONNECTIONS, c, "gone", k)
          battleMsg == <<Msg(c, "battle", enemy)>>
          battledMsg == <<Msg(CONNECTIONS[enemy], "battle", this)>>
          locs2 == IF move THEN MapPut(locs1, k, this) ELSE locs1
      IN
      /\ createFails => catchFatal
      /\ PLAYER_LOCATIONS' = IF catchPanics \/ battlePanics \/ catchFatal
                             THEN locs1
                             ELSE locs2
      /\ IF catch /\ ~catchPanics
         THEN /\ PLAYERS' =
                    IF IsAccount(this)
                    THEN [PLAYERS EXCEPT ![this] =
                             Append(@, CaughtPosition(pokemonID))]
                    ELSE PLAYERS
              /\ players_json' = IF catchFatal THEN players_json
                                 ELSE PLAYERS'
              /\ BOARD' = IF catchFatal THEN BOARD
                          ELSE [BOARD EXCEPT ![k] = ""]
              /\ POKEMON_LOCATIONS' =
                    IF catchFatal THEN POKEMON_LOCATIONS
                    ELSE MapDel(POKEMON_LOCATIONS, k)
         ELSE UNCHANGED <<PLAYERS, players_json, BOARD, POKEMON_LOCATIONS>>
      /\ IF battle /\ ~catchPanics /\ ~catchFatal /\ ~battlePanics
         THEN /\ pokeBalls_P1' = <<>>
              /\ pokeBalls_P2' = <<>>
              /\ P1' = this
              /\ P2' = enemy
              /\ player1Turn' = TRUE
              /\ UNCHANGED <<currentDefIndex_P1, currentDefIndex_P2>>
         ELSE UNCHANGED battleVars
      /\ alive' = ~(catchPanics \/ battlePanics \/ catchFatal)
      /\ sent' = pre
                 \o (IF catch THEN caughtMsg ELSE <<>>)
                 \o (IF catch /\ ~catchPanics /\ ~catchFatal
                     THEN goneMsgs ELSE <<>>)
                 \o (IF battle /\ ~catchPanics /\ ~catchFatal
                     THEN battleMsg ELSE <<>>)
                 \o (IF battle /\ ~catchPanics /\ ~catchFatal
                        /\ ~battlePanics
                     THEN battledMsg ELSE <<>>)
                 \o (IF catchPanics \/ battlePanics \/ catchFatal THEN <<>>
                     ELSE Broadcast(CONNECTIONS, 0, "playerlocs", locs2))
      /\ last' = Step(op, c, k, name, 0,
                      outcome
                      \cup (IF catchPanics \/ battlePanics
                            THEN {"panic"} ELSE {})
                      \cup (IF catchFatal THEN {"fatal"} ELSE {}))
      /\ UNCHANGED <<calcVars, clientVars, broken,
                     POKEMONS, despawnQueues, CONNECTIONS, connState,
                     schedPc, schedI>>

(* HandleInGameConnection: a message that is neither battle- nor
   surrender-prefixed *)
Move(c, k) ==
    /\ alive
    /\ connState[c] = "ingame"
    /\ nMsgs < MaxMsgs
    /\ nMsgs' = nMsgs + 1
    /\ UNCHANGED nTicks
    /\ HandleMovementOrEncounter(c, k, <<>>, "move", "")

(* a notice that names the player who surrendered *)
SurrenderWinner_Self(name) == name

(* if parts[1] == P1 { "victory_" + P2 } else { "victory_" + P1 } *)
SurrenderWinner(name) == IF name = P1 THEN P2 ELSE P1

(* HandleInGameConnection: surrender-<name> *)
Surrender(c, name) ==
    /\ alive
    /\ connState[c] = "ingame"
    /\ nMsgs < MaxMsgs
    /\ nMsgs' = nMsgs + 1
    /\ UNCHANGED nTicks
    /\ LET winner == SurrenderWinner(name)
       IN  IF P1 \in DOMAIN CONNECTIONS /\ P2 \in DOMAIN CONNECTIONS
           THEN HandleMovementOrEncounter(c, SurrenderKey,
                    <<Msg(CONNECTIONS[P1], "battle", <<"victory", winner>>),
                      Msg(CONNECTIONS[P2], "battle", <<"victory", winner>>)>>,
                    "surrender", name)
           ELSE /\ alive' = FALSE
                /\ sent' = IF P1 \in DOMAIN CONNECTIONS
                           THEN <<Msg(CONNECTIONS[P1], "battle",
                                      <<"victory", winner>>)>>
                           ELSE <<>>
                /\ last' = Step("surrender", c, NoKey, name, 0, {"panic"})
                /\ UNCHANGED <<calcVars, clientVars, broken,
                               POKEMONS, PLAYERS, players_json,
                   worldVars, CONNECTIONS,
                               battleVars, connState, schedPc, schedI>>

----------------------------------------------------------------------------
(* submitPokemon and the battle start of HandleInGameConnection *)

(* for i := 0; i < len(POKEMONS); i++ { if POKEMONS[i].ID == pokemonID }:
   the position of the first entry with that id, 0 when there is none *)
CatalogPosition(pokemonID) ==
    IF \E i \in 1..Len(POKEMONS) : POKEMONS[i].ID = pokemonID
    THEN CHOOSE i \in 1..Len(POKEMONS) :
            /\ POKEMONS[i].ID = pokemonID
            /\ \A j \in 1..(i - 1) : POKEMONS[j].ID /= pokemonID
    ELSE 0

(* the roster of P1 after submitPokemon(currentPlayer, pokemonID) *)
SubmittedP1(currentPlayer, pokemonID) ==
    IF CatalogPosition(pokemonID) /= 0 /\ currentPlayer = P1
    THEN Append(pokeBalls_P1, CatalogPosition(pokemonID))
    ELSE pokeBalls_P1

(* the roster of P2 after submitPokemon(currentPlayer, pokemonID) *)
SubmittedP2(currentPlayer, pokemonID) ==
    IF CatalogPosition(pokemonID) /= 0 /\ currentPlayer /= P1
       /\ currentPlayer = P2
    THEN Append(pokeBalls_P2, CatalogPosition(pokemonID))
    ELSE pokeBalls_P2

(* a start test that accepts rosters of more than 3 creatures *)
BattleBegins_AtLeast(team1, team2) == Len(team1) >= 3 /\ Len(team2) >= 3

(* if len(pokeBalls_P1) == 3 && len(pokeBalls_P2) == 3 *)
BattleBegins(team1, team2) == Len(team1) = 3 /\ Len(team2) = 3

(* a comparison that gives a tie to P2 *)
P1First_Strict(speed1, speed2) == speed1 > speed2

(* if speed_P1 >= speed_P2 *)
P1First(speed1, speed2) == speed1 >= speed2

(* HandleInGameConnection: battle-<currentPlayer>-<pokemonID>, the payload
   a number.  The handler of a battle message reads nothing of the
   connection the message came in on, so the action only requires some
   connection to be in its read loop. *)
SubmitPokemon(currentPlayer, pokemonID) ==
    /\ alive
    /\ \E c \in Conns : connState[c] = "ingame"
    /\ isNumber(pokemonID)
    /\ Len(SubmittedP1(currentPlayer, pokemonID)) <= MaxRoster
    /\ Len(SubmittedP2(currentPlayer, pokemonID)) <= MaxRoster
    /\ LET team1 == SubmittedP1(currentPlayer, pokemonID)
           team2 == SubmittedP2(currentPlayer, pokemonID)
           begins == BattleBegins(team1, team2)
           first1 == P1First(POKEMONS[team1[1]].Speed, POKEMONS[team2[1]].Speed)
           turnOwner == IF first1 THEN P1 ELSE P2
           waiter == IF first1 THEN P2 ELSE P1
           panics == begins /\ (P1 \notin DOMAIN CONNECTIONS
                                \/ P2 \notin DOMAIN CONNECTIONS)
       IN  /\ pokeBalls_P1' = team1
           /\ pokeBalls_P2' = team2
           /\ player1Turn' = IF begins /\ ~panics THEN first1 ELSE player1Turn
           /\ alive' = ~panics
           /\ sent' = IF ~begins THEN <<>>
                      ELSE (IF turnOwner \in DOMAIN CONNECTIONS
                            THEN <<Msg(CONNECTIONS[turnOwner], "battle",
                                       <<"turn", turnOwner>>)>>
                            ELSE <<>>)
                           \o (IF ~panics
                               THEN <<Msg(CONNECTIONS[waiter], "battle",
                                          <<"wait", "">>)>>
                               ELSE <<>>)
           /\ last' = Step("submit", 0, NoKey, "", 0,
                           (IF begins THEN {"begin"} ELSE {})
                           \cup (IF panics THEN {"panic"} ELSE {}))
    /\ UNCHANGED <<calcVars, clientVars, broken,
                   POKEMONS, PLAYERS, players_json,
                   worldVars, CONNECTIONS,
                   currentDefIndex_P1, currentDefIndex_P2, P1, P2,
                   connState, schedPc, schedI, nTicks, nMsgs>>

----------------------------------------------------------------------------
(* handleBattleAction and attackEnemy *)

(* the subtraction without the floor *)
Damage_NoFloor(atk, def) == SubWord(MulWord(atk, 50), def)

(* damage = atkValue*50 - defValue; if damage < 1 { damage = 1 } *)
Damage(atk, def) ==
    LET diff == SubWord(MulWord(atk, 50), def)
    IN  IF LessThanOne(diff) THEN Int64(1) ELSE diff

(* if defenderIndex >= len(defendingTeam) { defenderIndex = 0 } *)
DefenderSlot(defenderIndex, defendingTeam) ==
    IF defenderIndex >= Len(defendingTeam) THEN 0 ELSE defenderIndex

(* attackerIndex < 0 || attackerIndex >= len(attackingTeam) ||
   len(defendingTeam) == 0 *)
AttackReturnsEarly(attackingTeam, defendingTeam, attackerIndex) ==
    \/ attackerIndex < 0
    \/ attackerIndex >= Len(attackingTeam)
    \/ Len(defendingTeam) = 0

(* defHP after defHP -= damage *)
HPAfter(defHP, dmg) == defHP - dmg

(* if defHP <= 0 *)
Faints(defHP) == defHP <= 0

(* a removal that always drops the first creature of the roster *)
TeamAfterFaint_First(defendingTeam, slot) == Tail(defendingTeam)

(* append(defendingTeam[:defenderIndex], defendingTeam[defenderIndex+1:]...) *)
TeamAfterFaint(defendingTeam, slot) == RemoveAt(defendingTeam, slot + 1)

(* what the append above leaves in a slice header that still has the old
   length: the elements after the slot moved down, the last one repeated *)
ShiftedInPlace(team, slot) ==
    [j \in 1..Len(team) |->
        IF j < slot + 1 THEN team[j]
        ELSE IF j < Len(team) THEN team[j + 1] ELSE team[j]]

(* attackEnemy(attackingTeam, defendingTeam, attackerIndex, defenderIndex,
   defenderPlayer), called for the participant whose turn it is; attacker1
   tells that the attacking team is pokeBalls_P1.  The result: the rosters,
   the catalog, the message written and whether the write panics. *)
AttackEnemy(attacker1, attackerIndex) ==
    LET attackingTeam == IF attacker1 THEN pokeBalls_P1 ELSE pokeBalls_P2
        defendingTeam == IF attacker1 THEN pokeBalls_P2 ELSE pokeBalls_P1
        defenderIndex == IF attacker1 THEN currentDefIndex_P2
                         ELSE currentDefIndex_P1
        defenderPlayer == IF attacker1 THEN P2 ELSE P1
        slot == DefenderSlot(defenderIndex, defendingTeam)
        atk == Int64(POKEMONS[attackingTeam[attackerIndex + 1]].Attack)
        def == Int64(POKEMONS[defendingTeam[slot + 1]].Defense)
        dmg == IntOf(Damage(atk, def))
        defHP == HPAfter(POKEMONS[defendingTeam[slot + 1]].HP, dmg)
        newTeam == IF Faints(defHP) THEN TeamAfterFaint(defendingTeam, slot)
                   ELSE defendingTeam
        aliased == IF Faints(defHP) THEN ShiftedInPlace(defendingTeam, slot)
                   ELSE defendingTeam
    IN  IF AttackReturnsEarly(attackingTeam, defendingTeam, attackerIndex)
        THEN [team1 |-> pokeBalls_P1, team2 |-> pokeBalls_P2,
              catalog |-> POKEMONS, msgs |-> <<>>, panics |-> FALSE]
        ELSE [team1 |-> IF defenderPlayer = P1 THEN newTeam
                        ELSE pokeBalls_P1,
              team2 |-> IF defenderPlayer = P1
                        THEN (IF attacker1 THEN aliased ELSE pokeBalls_P2)
                        ELSE newTeam,
              catalog |-> IF Faints(defHP) THEN POKEMONS
                          ELSE [POKEMONS EXCEPT
                                   ![defendingTeam[slot + 1]].HP = defHP],
              msgs |-> IF defenderPlayer \in DOMAIN CONNECTIONS
                       THEN <<Msg(CONNECTIONS[defenderPlayer], "battle",
                                  <<"attacked",
                                    IF Faints(defHP) THEN 0 ELSE defHP,
                                    dmg, slot>>)>>
                       ELSE <<>>,
              panics |-> defenderPlayer \notin DOMAIN CONNECTIONS]

(* a switch that sets the index of the participant who waits *)
Switch_Waiting(currentPlayer, slot) ==
    /\ alive
    /\ \E c \in Conns : connState[c] = "ingame"
    /\ IF player1Turn
       THEN /\ currentDefIndex_P2' = slot
            /\ UNCHANGED currentDefIndex_P1
       ELSE /\ currentDefIndex_P1' = slot
            /\ UNCHANGED currentDefIndex_P2
    /\ sent' = <<>>
    /\ last' = Step("switch", 0, NoKey, "", 0, {})
    /\ UNCHANGED <<calcVars, clientVars, broken,
                   POKEMONS, PLAYERS, players_json,
                   worldVars, CONNECTIONS, pokeBalls_P1,
                   pokeBalls_P2, P1, P2, player1Turn, connState, schedPc,
                   schedI, alive, nTicks, nMsgs>>

(* HandleInGameConnection: battle-<currentPlayer>-<slot>*switch *)
Switch(currentPlayer, slot) ==
    /\ alive
    /\ \E c \in Conns : connState[c] = "ingame"
    /\ IF player1Turn
       THEN /\ currentDefIndex_P1' = slot
            /\ UNCHANGED currentDefIndex_P2
       ELSE /\ currentDefIndex_P2' = slot
            /\ UNCHANGED currentDefIndex_P1
    /\ sent' = <<>>
    /\ last' = Step("switch", 0, NoKey, "", 0, {})
    /\ UNCHANGED <<calcVars, clientVars, broken,
                   POKEMONS, PLAYERS, players_json,
                   worldVars, CONNECTIONS, pokeBalls_P1,
                   pokeBalls_P2, P1, P2, player1Turn, connState, schedPc,
                   schedI, alive, nTicks, nMsgs>>

(* if currentPlayer == P1 (player1Turn) / if currentPlayer == P2 *)
MayAttack(currentPlayer) ==
    IF player1Turn THEN currentPlayer = P1 ELSE currentPlayer = P2

(* HandleInGameConnection: battle-<currentPlayer>-<slot>*attack *)
Attack(currentPlayer, slot) ==
    /\ alive
    /\ \E c \in Conns : connState[c] = "ingame"
    /\ IF MayAttack(currentPlayer)
       THEN LET r == AttackEnemy(player1Turn, slot)
                attacker == IF player1Turn THEN P1 ELSE P2
                defender == IF player1Turn THEN P2 ELSE P1
                panics == \/ r.panics
                          \/ attacker \notin DOMAIN CONNECTIONS
                          \/ defender \notin DOMAIN CONNECTIONS
            IN  /\ pokeBalls_P1' = r.team1
                /\ pokeBalls_P2' = r.team2
                /\ POKEMONS' = r.catalog
                /\ player1Turn' = IF panics THEN player1Turn
                                  ELSE ~player1Turn
                /\ alive' = ~panics
                /\ sent' = r.msgs
                     \o (IF ~r.panics /\ attacker \in DOMAIN CONNECTIONS
                         THEN <<Msg(CONNECTIONS[attacker], "battle",
                                    <<"wait", "">>)>>
                         ELSE <<>>)
                     \o (IF ~panics
                         THEN <<Msg(CONNECTIONS[defender], "battle",
                                    <<"turn", defender>>)>>
                         ELSE <<>>)
                /\ last' = Step("attack", 0, NoKey, "", 0,
                                (IF r.msgs /= <<>> THEN {"hit"} ELSE {})
                                \cup (IF panics THEN {"panic"} ELSE {}))
       ELSE /\ UNCHANGED <<pokeBalls_P1, pokeBalls_P2, POKEMONS,
                           player1Turn, alive>>
            /\ sent' = <<>>
            /\ last' = Step("attack", 0, NoKey, "", 0, {"ignored"})
    /\ UNCHANGED <<calcVars, clientVars, broken,
                   PLAYERS, players_json, worldVars, CONNECTIONS,
                   currentDefIndex_P1, currentDefIndex_P2, P1, P2, connState,
                   schedPc, schedI, nTicks, nMsgs>>

----------------------------------------------------------------------------
(* The world specification: the session handler's world operations and the
   scheduler.  The battle operations (roster submission, attack, switch)
   write none of BOARD, POKEMON_LOCATIONS, PLAYER_LOCATIONS, despawnQueues,
   CONNECTIONS; they are the actions of SpecBattle. *)

Next ==
    \/ SpawnTick
    \/ SpawnTickHangs
    \/ DespawnTick
    \/ \E c \in Conns, u \in Users : Login(c, u)
    \/ \E c \in Conns, u \in Users : LoginHangs(c, u)
    \/ \E c \in Conns : LoginFails(c)
    \/ \E c \in Conns : AuthReadFails(c)
    \/ \E c \in Conns : PeerResets(c)
    \/ \E c \in Conns : Disconnect(c)
    \/ \E c \in Conns, k \in Keys : Move(c, k)
    \/ \E c \in Conns, name \in Users : Surrender(c, name)

Spec == Init /\ [][Next]_vars

----------------------------------------------------------------------------
(* The battle specification.  It starts in a state the server reaches
   when, after main, a despawn tick has cleared the initial creatures,
   "ash" and "gary" have logged in on connections 1 and 2, "gary" placed on
   the cell of the hard-coded surrender move, and "ash" has moved onto the
   cell of "gary" (initiateBattle), the one in-game message handled so far.
   It runs the battle and surrender messages of HandleInGameConnection. *)

InitBattle ==
    /\ POKEMONS = Catalog
    /\ PLAYERS = [u \in Users |-> <<>>]
    /\ players_json = PLAYERS
    /\ broken = {}
    /\ BOARD = [k \in Keys |-> IF k = SurrenderKey THEN "gary"
                               ELSE IF k = <<0, 0>> THEN "ash" ELSE ""]
    /\ POKEMON_LOCATIONS = EmptyMap
    /\ PLAYER_LOCATIONS = [k \in {SurrenderKey} |-> "gary"]
    /\ despawnQueues = <<>>
    /\ CONNECTIONS = [u \in {"ash", "gary"} |-> IF u = "ash" THEN 1 ELSE 2]
    /\ pokeBalls_P1 = <<>>
    /\ pokeBalls_P2 = <<>>
    /\ currentDefIndex_P1 = 0
    /\ currentDefIndex_P2 = 0
    /\ P1 = "ash"
    /\ P2 = "gary"
    /\ player1Turn = TRUE
    /\ connState = [c \in Conns |-> IF c <= 2 THEN "ingame" ELSE "none"]
    /\ schedPc = "idle"
    /\ schedI = 0
    /\ alive = TRUE
    /\ nTicks = 1
    /\ nMsgs = 1
    /\ sent = <<Msg(1, "battle", "gary"), Msg(2, "battle", "ash")>>
              \o Broadcast(CONNECTIONS, 0, "playerlocs", PLAYER_LOCATIONS)
    /\ last = Step("move", 1, SurrenderKey, "", 0, {"battle"})
    /\ InitCalc
    /\ InitIdleClient

(* the creature ids of the roster submissions *)
SubmitIds == {"1", "2"}

(* the names the battle messages carry: the two connected players *)
BattleNames == {"ash", "gary"}

NextBattle ==
    \/ \E name \in BattleNames, id \in SubmitIds : SubmitPokemon(name, id)
    \/ \E name \in BattleNames, slot \in 0..MaxSlot : Switch(name, slot)
    \/ \E name \in BattleNames, slot \in 0..MaxSlot : Attack(name, slot)
    \/ \E c \in Conns, name \in BattleNames : Surrender(c, name)

SpecBattle == InitBattle /\ [][NextBattle]_vars

----------------------------------------------------------------------------
(* The specification of a battle in progress.  It starts in the states the
   battle specification reaches by the submission that completes two
   rosters of 3 creatures: the turn and wait notices have been written and
   both active-slot indices are 0.  Its steps are the attacks and the
   switches. *)

RosterSize == 3

InitProgress ==
    /\ POKEMONS = Catalog
    /\ PLAYERS = [u \in Users |-> <<>>]
    /\ players_json = PLAYERS
    /\ broken = {}
    /\ BOARD = [k \in Keys |-> IF k = SurrenderKey THEN "gary"
                               ELSE IF k = <<0, 0>> THEN "ash" ELSE ""]
    /\ POKEMON_LOCATIONS = EmptyMap
    /\ PLAYER_LOCATIONS = [k \in {SurrenderKey} |-> "gary"]
    /\ despawnQueues = <<>>
    /\ CONNECTIONS = [u \in BattleNames |-> IF u = "ash" THEN 1 ELSE 2]
    /\ pokeBalls_P1 \in [1..RosterSize -> 1..CatalogSize]
    /\ pokeBalls_P2 \in [1..RosterSize -> 1..CatalogSize]
    /\ currentDefIndex_P1 = 0
    /\ currentDefIndex_P2 = 0
    /\ P1 = "ash"
    /\ P2 = "gary"
    /\ player1Turn = P1First(POKEMONS[pokeBalls_P1[1]].Speed,
                             POKEMONS[pokeBalls_P2[1]].Speed)
    /\ connState = [c \in Conns |-> IF c <= 2 THEN "ingame" ELSE "none"]
    /\ schedPc = "idle"
    /\ schedI = 0
    /\ alive = TRUE
    /\ nTicks = 1
    /\ nMsgs = 1
    /\ sent = IF player1Turn
              THEN <<Msg(1, "battle", <<"turn", "ash">>),
                     Msg(2, "battle", <<"wait", "">>)>>
              ELSE <<Msg(2, "battle", <<"turn", "gary">>),
                     Msg(1, "battle", <<"wait", "">>)>>
    /\ last = Step("submit", 0, NoKey, "", 0, {"begin"})
    /\ InitCalc
    /\ InitIdleClient

NextProgress ==
    \/ \E name \in BattleNames, slot \in 0..MaxSlot : Switch(name, slot)
    \/ \E name \in BattleNames, slot \in 0..MaxSlot : Attack(name, slot)

SpecProgress == InitProgress /\ [][NextProgress]_vars

----------------------------------------------------------------------------
(* The world specification with its scheduling.  The two tickers of
   handlePokemons keep firing and the scheduler worker, once it is back at
   its select, handles a tick that has fired: a spawn tick and a despawn
   tick are each taken when they stay possible.  Nothing is assumed of the
   connections. *)

SpecLive ==
    /\ Spec
    /\ WF_vars(SpawnTick \/ SpawnTickHangs)
    /\ WF_vars(DespawnTick)

----------------------------------------------------------------------------
(* The specification of two pairs.  It starts in a state the server
   reaches on its board when "ash", "gary" and "misty" have logged in and
   "ash" has moved onto the cell of "gary": the battle of "ash" and "gary"
   is in its roster selection.  The worker of the connection of "misty"
   stays blocked in its read; the two other workers handle roster
   submissions and moves. *)

IdleConn == NumConns + 1

InitPairs ==
    /\ POKEMONS = Catalog
    /\ PLAYERS = [u \in Users |-> <<>>]
    /\ players_json = PLAYERS
    /\ broken = {}
    /\ BOARD = [k \in Keys |-> IF k = SurrenderKey THEN "gary"
                               ELSE IF k = <<0, 0>> THEN "misty" ELSE ""]
    /\ POKEMON_LOCATIONS = EmptyMap
    /\ PLAYER_LOCATIONS =
           [k \in {SurrenderKey, <<0, 0>>} |->
               IF k = SurrenderKey THEN "gary" ELSE "misty"]
    /\ despawnQueues = <<>>
    /\ CONNECTIONS = [u \in Users |-> IF u = "ash" THEN 1
                                       ELSE IF u = "gary" THEN 2
                                       ELSE IdleConn]
    /\ pokeBalls_P1 = <<>>
    /\ pokeBalls_P2 = <<>>
    /\ currentDefIndex_P1 = 0
    /\ currentDefIndex_P2 = 0
    /\ P1 = "ash"
    /\ P2 = "gary"
    /\ player1Turn = TRUE
    /\ connState = [c \in Conns |-> IF c <= 2 THEN "ingame" ELSE "none"]
    /\ schedPc = "idle"
    /\ schedI = 0
    /\ alive = TRUE
    /\ nTicks = 1
    /\ nMsgs = 1
    /\ sent = <<Msg(1, "battle", "gary"), Msg(2, "battle", "ash")>>
              \o Broadcast(CONNECTIONS, 0, "playerlocs", PLAYER_LOCATIONS)
    /\ last = Step("move", 1, SurrenderKey, "", 0, {"battle"})
    /\ InitCalc
    /\ InitIdleClient

NextPairs ==
    \/ \E name \in Users, id \in SubmitIds : SubmitPokemon(name, id)
    \/ \E c \in Conns, k \in Keys : Move(c, k)

SpecPairs == InitPairs /\ [][NextPairs]_vars

----------------------------------------------------------------------------
(* The concurrent specification.  The scheduler worker (go handlePokemons)
   and the connection workers (go handleAuthConnection) share BOARD, the
   location maps, CONNECTIONS and despawnQueues without any lock, so a
   connection worker runs between any two statements of a despawn tick.
   Here the tick is the test of the queue length, one step for each
   iteration of its loop, and a last step for the slice and the broadcast;
   all other operations are the steps of the world specification. *)

(* case <-despawnTicker5min.C, up to the first iteration of the loop *)
DespawnBegin ==
    /\ alive
    /\ schedPc = "idle"
    /\ nTicks < MaxTicks
    /\ nTicks' = nTicks + 1
    /\ UNCHANGED nMsgs
    /\ IF DespawnSkips(despawnQueues)
       THEN DespawnSkipped /\ UNCHANGED <<schedPc, schedI>>
       ELSE /\ schedPc' = "despawn"
            /\ schedI' = 0
            /\ sent' = <<>>
            /\ last' = Step("despawn", 0, NoKey, "", 0, {"begin"})
            /\ UNCHANGED worldVars
    /\ UNCHANGED <<calcVars, clientVars, broken,
                   POKEMONS, PLAYERS, players_json, CONNECTIONS,
                   battleVars,
                   connState, alive>>

(* one iteration of for i := 0; i < NUMBERTOPROCESS; i++ *)
DespawnIter ==
    /\ alive
    /\ schedPc = "despawn"
    /\ schedI < NUMBERTOPROCESS
    /\ BOARD' = [BOARD EXCEPT ![despawnQueues[schedI + 1]] = ""]
    /\ POKEMON_LOCATIONS' =
           LocationsCleared(POKEMON_LOCATIONS, <<despawnQueues[schedI + 1]>>)
    /\ schedI' = schedI + 1
    /\ sent' = <<>>
    /\ last' = Step("despawn", 0, despawnQueues[schedI + 1], "", 0, {"iter"})
    /\ UNCHANGED <<calcVars, clientVars, broken,
                   POKEMONS, PLAYERS, players_json, PLAYER_LOCATIONS,
                   despawnQueues, CONNECTIONS, battleVars, connState,
                   schedPc, alive, nTicks, nMsgs>>

(* despawnQueues = despawnQueues[NUMBERTOPROCESS:] and the broadcast *)
DespawnEnd ==
    /\ alive
    /\ schedPc = "despawn"
    /\ schedI = NUMBERTOPROCESS
    /\ despawnQueues' = QueueAfterDespawn(despawnQueues)
    /\ sent' = Broadcast(CONNECTIONS, 0, "despawned",
                         DespawnedLocations(DespawnBatch(despawnQueues)))
    /\ schedPc' = "idle"
    /\ schedI' = 0
    /\ last' = Step("despawn", 0, NoKey, "", 0, {})
    /\ UNCHANGED <<calcVars, clientVars, broken,
                   POKEMONS, PLAYERS, players_json, BOARD,
                   POKEMON_LOCATIONS,
                   PLAYER_LOCATIONS, CONNECTIONS, battleVars, connState,
                   alive, nTicks, nMsgs>>

NextConc ==
    \/ SpawnTick
    \/ SpawnTickHangs
    \/ DespawnBegin
    \/ DespawnIter
    \/ DespawnEnd
    \/ \E c \in Conns, u \in Users : Login(c, u)
    \/ \E c \in Conns, u \in Users : LoginHangs(c, u)
    \/ \E c \in Conns : LoginFails(c)
    \/ \E c \in Conns : AuthReadFails(c)
    \/ \E c \in Conns : PeerResets(c)
    \/ \E c \in Conns : Disconnect(c)
    \/ \E c \in Conns, k \in Keys : Move(c, k)
    \/ \E c \in Conns, name \in Users : Surrender(c, name)

SpecConc == Init /\ [][NextConc]_vars

----------------------------------------------------------------------------
(* The damage specification: the damage computation of attackEnemy on the
   values strconv.Atoi can return for the Attack and Defense stats of a
   catalog file, among them the largest Attack whose product with 50 is an
   int, the smallest whose product is not, and the ends of the int range. *)

MaxInt == <<65535, 65535, 65535, 32767>>
MinInt == <<0, 0, 0, 32768>>
MinusOne == <<65535, 65535, 65535, 65535>>
(* 184467440737095516 = (2^63 - 1) \div 50 and its successor *)
LargestInRange == <<36700, 62914, 23592, 655>>
SmallestWrapping == <<36701, 62914, 23592, 655>>

StatValues ==
    {Int64(0), Int64(1), Int64(2), Int64(48), Int64(255), Int64(1000),
     LargestInRange, SmallestWrapping, MaxInt, MinInt, MinusOne}

InitDamage ==
    /\ POKEMONS = Catalog
    /\ InitCommon
    /\ BOARD = [k \in Keys |-> ""]
    /\ POKEMON_LOCATIONS = EmptyMap
    /\ despawnQueues = <<>>
    /\ InitIdleClient
    /\ atkValue \in StatValues
    /\ defValue \in StatValues
    /\ damage = Int64(0)

(* attackEnemy, from the two Atoi calls to the floor of the damage *)
AttackEnemyDamage ==
    /\ last.op = "main"
    /\ damage' = Damage(atkValue, defValue)
    /\ last' = Step("damage", 0, NoKey, "", 0, {})
    /\ UNCHANGED clientVars
    /\ UNCHANGED <<atkValue, defValue, broken, sent, POKEMONS, PLAYERS,
                   players_json, worldVars, CONNECTIONS, battleVars,
                   connState, schedPc, schedI, alive, nTicks, nMsgs>>

NextDamage == AttackEnemyDamage

SpecDamage == InitDamage /\ [][NextDamage]_vars

----------------------------------------------------------------------------
(* The reader specification: the client's readFromServer on two documents
   the server has written back-to-back to its connection, delivered by one
   read or by two.  A document is the sequence of the key/value pairs of a
   map[string]string in the order json.Marshal writes them (sorted by
   key); on the wire it is a sequence of tokens. *)

Token(t, k, v) == [t |-> t, k |-> k, v |-> v]

Open == Token("{", "", "")

Close == Token("}", "", "")

Comma == Token(",", "", "")

Pair(k, v) == Token("pair", k, v)

(* the keys of the documents, in the order of json.Marshal *)
KeyOrder == <<"0-1", "battle">>

(* the values the server writes under a key: a creature id or "" under a
   location key, a battle notice under "battle" *)
ValuesOf(k) == IF k = "battle" THEN {"attacked", "wait"} ELSE {"", "1"}

DocumentOf(m) ==
    LET ks == SelectSeq(KeyOrder, LAMBDA k : k \in DOMAIN m)
    IN  [i \in 1..Len(ks) |-> Pair(ks[i], m[ks[i]])]

Maps ==
    UNION {{m \in [K -> {"", "1", "attacked", "wait"}] :
               \A k \in K : m[k] \in ValuesOf(k)} :
           K \in SUBSET {KeyOrder[i] : i \in DOMAIN KeyOrder}}

Documents == {DocumentOf(m) : m \in Maps}

RECURSIVE Members(_)
(* the pairs of a document separated by commas *)
Members(doc) ==
    IF Len(doc) = 0 THEN <<>>
    ELSE IF Len(doc) = 1 THEN doc
    ELSE <<doc[1], Comma>> \o Members(Tail(doc))

(* json.Marshal of a map[string]string *)
Marshal(doc) == <<Open>> \o Members(doc) \o <<Close>>

RECURSIVE repairJSON(_)
(* strings.Replace(str, "}{", ",", -1) *)
repairJSON(data) ==
    IF Len(data) < 2 THEN data
    ELSE IF data[1] = Close /\ data[2] = Open
         THEN <<Comma>> \o repairJSON(SubSeq(data, 3, Len(data)))
         ELSE <<data[1]>> \o repairJSON(Tail(data))

(* json.Valid: the data is one object, its members separated by commas *)
Valid(data) ==
    /\ Len(data) >= 2
    /\ data[1] = Open
    /\ data[Len(data)] = Close
    /\ LET inner == SubSeq(data, 2, Len(data) - 1)
       IN  \/ inner = <<>>
           \/ /\ Len(inner) % 2 = 1
              /\ \A i \in DOMAIN inner :
                     IF i % 2 = 1 THEN inner[i].t = "pair"
                     ELSE inner[i] = Comma

(* json.Unmarshal(data, &locations): of the members with the same key the
   last one sets the value *)
Unmarshal(data) ==
    LET at == {i \in DOMAIN data : data[i].t = "pair"}
    IN  [k \in {data[i].k : i \in at} |->
            data[CHOOSE i \in at :
                    /\ data[i].k = k
                    /\ \A j \in at : data[j].k = k => j <= i].v]

(* for location, id := range locations: the orders in which the range of a
   Go map can visit its keys *)
RangeOrders(m) ==
    {o \in [1..Cardinality(DOMAIN m) -> DOMAIN m] :
        \A i, j \in DOMAIN o : i /= j => o[i] /= o[j]}

InitReader ==
    /\ POKEMONS = Catalog
    /\ InitCommon
    /\ InitCalc
    /\ BOARD = [k \in Keys |-> ""]
    /\ POKEMON_LOCATIONS = EmptyMap
    /\ despawnQueues = <<>>
    /\ written \in {<<d1, d2>> : d1 \in Documents, d2 \in Documents}
    /\ wire \in {<<Marshal(written[1]) \o Marshal(written[2])>>,
                  <<Marshal(written[1]), Marshal(written[2])>>}
    /\ handled = <<>>
    /\ reading = TRUE

(* one iteration of the loop of readFromServer *)
ReadFromServer ==
    /\ reading
    /\ wire /= <<>>
    /\ LET data == Head(wire)
           repaired == IF Valid(data) THEN data ELSE repairJSON(data)
       IN  IF Valid(repaired)
           THEN /\ \E o \in RangeOrders(Unmarshal(repaired)) :
                      handled' = handled \o
                          [i \in DOMAIN o |->
                              Pair(o[i], Unmarshal(repaired)[o[i]])]
                /\ reading' = TRUE
           ELSE /\ handled' = handled
                /\ reading' = FALSE
    /\ wire' = Tail(wire)
    /\ last' = Step("read", 0, NoKey, "", 0, {})
    /\ UNCHANGED <<calcVars, broken, written, sent, POKEMONS, PLAYERS,
                   players_json, worldVars, CONNECTIONS, battleVars,
                   connState, schedPc, schedI, alive, nTicks, nMsgs>>

NextReader == ReadFromServer

SpecReader == InitReader /\ [][NextReader]_vars

----------------------------------------------------------------------------
(* Properties of the grid and its location indices (world specification) *)

ExactlyOneEntry(k) ==
    (k \in DOMAIN POKEMON_LOCATIONS) /= (k \in DOMAIN PLAYER_LOCATIONS)

EntryNamesOccupant(k) ==
    /\ k \in DOMAIN POKEMON_LOCATIONS => POKEMON_LOCATIONS[k] = BOARD[k]
    /\ k \in DOMAIN PLAYER_LOCATIONS => PLAYER_LOCATIONS[k] = BOARD[k]

(* C1: a grid cell is non-empty if and only if exactly one location-index
   entry (creature-by-coordinate or identity-by-coordinate) exists for its
   coordinate, and that entry names the occupant of the cell. *)
C1_GridIndexInvariant ==
    \A k \in Keys :
        /\ (BOARD[k] /= "") <=> ExactlyOneEntry(k)
        /\ (BOARD[k] /= "") => EntryNamesOccupant(k)

(* C2: no coordinate is at the same time a key of the creature index and of
   the identity index. *)
C2_AtMostOneOccupant ==
    (DOMAIN POKEMON_LOCATIONS) \cap (DOMAIN PLAYER_LOCATIONS) = {}

(* C3: the identity index is a bijection: each identity appears under at
   most one coordinate. *)
C3_IdentityBijection ==
    \A k1, k2 \in DOMAIN PLAYER_LOCATIONS :
        PLAYER_LOCATIONS[k1] = PLAYER_LOCATIONS[k2] => k1 = k2

----------------------------------------------------------------------------
(* Properties of the despawn tick (world specification) *)

(* a step of the despawn ticker that finds n or more / fewer than n entries *)
DespawnStep == last'.op = "despawn" /\ nTicks' = nTicks + 1

OldestN == {despawnQueues[i] : i \in 1..NUMBERTOPROCESS}

QueueKeepsSpawnOrder ==
    \/ /\ Len(despawnQueues') >= Len(despawnQueues)
       /\ SubSeq(despawnQueues', 1, Len(despawnQueues)) = despawnQueues
    \/ /\ Len(despawnQueues) >= NUMBERTOPROCESS
       /\ Len(despawnQueues') = Len(despawnQueues) - NUMBERTOPROCESS
       /\ \A i \in 1..Len(despawnQueues') :
              despawnQueues'[i] = despawnQueues[i + NUMBERTOPROCESS]

(* C5: the spawn queue is first-in first-out: a step either appends to its
   end or drops its first N entries; a despawn tick that finds N or more
   entries removes exactly the N oldest, the remaining entries keep their
   order, the cells cleared and the coordinates broadcast are exactly those
   N locations and every other cell and index entry is left alone. *)
C5_DespawnOldestFirst ==
    [][/\ QueueKeepsSpawnOrder
       /\ (DespawnStep /\ Len(despawnQueues) >= NUMBERTOPROCESS) =>
             /\ Len(despawnQueues') = Len(despawnQueues) - NUMBERTOPROCESS
             /\ \A i \in 1..Len(despawnQueues') :
                    despawnQueues'[i] = despawnQueues[i + NUMBERTOPROCESS]
             /\ \A k \in OldestN :
                    BOARD'[k] = "" /\ k \notin DOMAIN POKEMON_LOCATIONS'
             /\ \A k \in Keys \ OldestN :
                    /\ BOARD'[k] = BOARD[k]
                    /\ (k \in DOMAIN POKEMON_LOCATIONS')
                           <=> (k \in DOMAIN POKEMON_LOCATIONS)
             /\ \A i \in DOMAIN sent' :
                    /\ sent'[i].kind = "despawned"
                    /\ DOMAIN sent'[i].body = OldestN]_vars

(* a despawn tick has removed the oldest entry of a queue that holds a
   younger one, and has told a connected player *)
C5_Witness ==
    /\ last.op = "despawn"
    /\ "skipped" \notin last.outcome
    /\ despawnQueues /= <<>>
    /\ \E i \in DOMAIN sent : sent[i].kind = "despawned"

(* C6: a despawn tick that finds fewer than N entries in the spawn queue
   leaves the grid, the creature index and the spawn queue unchanged and
   broadcasts no message. *)
C6_DespawnSkipChangesNothing ==
    [][(DespawnStep /\ Len(despawnQueues) < NUMBERTOPROCESS) =>
          /\ UNCHANGED <<BOARD, POKEMON_LOCATIONS, despawnQueues>>
          /\ sent' = <<>>]_vars

(* a despawn tick was skipped while a player was connected *)
C6_Witness ==
    /\ last.op = "despawn"
    /\ "skipped" \in last.outcome
    /\ Len(despawnQueues) < NUMBERTOPROCESS
    /\ DOMAIN CONNECTIONS /= {}

----------------------------------------------------------------------------
(* Properties of the movement handler (world specification) *)

MoveStep == last'.op = "move" /\ nMsgs' = nMsgs + 1

CatchSent == \E i \in DOMAIN sent' : sent'[i].kind = "caught"

BattleSent == \E i \in DOMAIN sent' : sent'[i].kind = "battle"

MoveRecorded ==
    /\ "move" \in last'.outcome
    /\ last'.key \in DOMAIN PLAYER_LOCATIONS'
    /\ PLAYER_LOCATIONS'[last'.key] = UsernameOf(last'.conn)

(* C7: a movement message has exactly one of the three outcomes: the sender
   is told of a catch, the sender is told of a battle, or the move is
   recorded in the identity index; when the target holds a creature the
   outcome is the catch and the battle state is untouched, also when an
   identity is indexed at the target. *)
C7_ExactlyOneOutcome ==
    [][MoveStep =>
          /\ (IF CatchSent THEN 1 ELSE 0) + (IF BattleSent THEN 1 ELSE 0)
                 + (IF MoveRecorded THEN 1 ELSE 0) = 1
          /\ "move" \in last'.outcome => MoveRecorded
          /\ last'.key \in DOMAIN POKEMON_LOCATIONS =>
                 CatchSent /\ ~BattleSent /\ UNCHANGED battleVars]_vars

(* a player has caught the creature of a cell at which another identity is
   indexed *)
C7_Witness ==
    /\ last.op = "move"
    /\ "catch" \in last.outcome
    /\ last.key \in DOMAIN PLAYER_LOCATIONS

----------------------------------------------------------------------------
(* Properties of the battle (battle specification) *)

(* initiateBattle makes the player whose move started the battle P1 *)
Initiator == P1

SlotZeroSpeed(team) == POKEMONS[team[1]].Speed

TurnOwner == IF player1Turn THEN P1 ELSE P2

(* C8: when the battle begins, the first turn owner is the participant
   whose slot-0 creature has the strictly higher Speed, and the initiator
   of the battle when the two Speeds are equal; the turn notice goes to
   that participant and names it. *)
C8_FirstTurnBySpeed ==
    (last.op = "submit" /\ "begin" \in last.outcome /\ alive) =>
        LET first == IF SlotZeroSpeed(pokeBalls_P1) > SlotZeroSpeed(pokeBalls_P2)
                     THEN P1
                     ELSE IF SlotZeroSpeed(pokeBalls_P2)
                             > SlotZeroSpeed(pokeBalls_P1)
                          THEN P2
                          ELSE Initiator
        IN  /\ TurnOwner = first
            /\ sent[1] = Msg(CONNECTIONS[first], "battle", <<"turn", first>>)

(* the battle has begun between slot-0 creatures of equal Speed *)
C8_Witness ==
    /\ last.op = "submit"
    /\ "begin" \in last.outcome
    /\ alive
    /\ SlotZeroSpeed(pokeBalls_P1) = SlotZeroSpeed(pokeBalls_P2)
    /\ Initiator = "ash"

(* the defender of an attack step and its roster *)
DefendingTeamNow == IF player1Turn THEN pokeBalls_P2 ELSE pokeBalls_P1

DefendingTeamNext == IF player1Turn THEN pokeBalls_P2' ELSE pokeBalls_P1'

(* an attack step that wrote an attack result *)
AttackHits ==
    /\ last'.op = "attack"
    /\ "hit" \in last'.outcome
    /\ sent'[1].body[1] = "attacked"

(* C10: when an attack reduces the HP of the defending creature to 0 or
   below, the roster of the defender loses exactly that creature: the
   creatures before its slot are unchanged, the creatures after it move
   down by one slot in their order, and the HP reported is 0. *)
C10_FaintRemovesThatCreature ==
    [][(/\ AttackHits
        /\ POKEMONS[DefendingTeamNow[sent'[1].body[4] + 1]].HP
              - sent'[1].body[3] <= 0) =>
          /\ Len(DefendingTeamNext) = Len(DefendingTeamNow) - 1
          /\ \A j \in 1..Len(DefendingTeamNext) :
                 DefendingTeamNext[j] =
                     IF j < sent'[1].body[4] + 1 THEN DefendingTeamNow[j]
                     ELSE DefendingTeamNow[j + 1]
          /\ sent'[1].body[2] = 0]_vars

(* the creature in slot 1 of a roster of three has fainted *)
C10_Witness ==
    /\ last.op = "attack"
    /\ "hit" \in last.outcome
    /\ sent[1].body = <<"attacked", 0, sent[1].body[3], 1>>
    /\ Len(IF player1Turn THEN pokeBalls_P1 ELSE pokeBalls_P2) = 2
    /\ alive

----------------------------------------------------------------------------
(* Properties of the damage computation (damage specification) *)

(* Attack * 50 - Defense in the integers, as a word no value here wraps *)
ExactDifference ==
    SubWord(MulWord(SignExtend(atkValue, WideLimbs), 50),
            SignExtend(defValue, WideLimbs))

ExactDamage ==
    IF LessThanOne(ExactDifference) THEN SignExtend(Int64(1), WideLimbs)
    ELSE ExactDifference

(* the value is one an int can hold *)
FitsInt(w) == SignExtend(SubSeq(w, 1, IntLimbs), Len(w)) = w

(* C9 as stated: for every Attack and Defense value the damage equals
   Attack * 50 - Defense when that is at least 1 and 1 otherwise, and is
   never below 1. *)
C9_DamageForEveryValue ==
    last.op = "damage" =>
        /\ SignExtend(damage, WideLimbs) = ExactDamage
        /\ ~LessThanOne(damage)

(* C9, amended: for every Attack and Defense value whose Attack * 50 -
   Defense is a value of the int type, the damage equals it when it is at
   least 1 and equals 1 otherwise; for every Attack and Defense value the
   damage is never below 1. *)
C9_DamageWithinIntRange ==
    last.op = "damage" =>
        /\ FitsInt(ExactDifference) =>
               SignExtend(damage, WideLimbs) = ExactDamage
        /\ ~LessThanOne(damage)

(* Attack 1 against Defense 1000 has dealt the damage 1 *)
C9_Witness ==
    /\ last.op = "damage"
    /\ atkValue = Int64(1)
    /\ defValue = Int64(1000)
    /\ damage = Int64(1)

----------------------------------------------------------------------------
(* Properties of the workers (concurrent specification) *)

(* C4: shared-state mutation is serialized: while the scheduler worker is
   inside a despawn tick, between its first write and its broadcast, the
   only steps are the steps of that tick; no connection worker reads or
   writes the grid, the location indices, the registry or the queue. *)
C4_DespawnTickExclusive ==
    [][schedPc = "despawn" => last'.op = "despawn"]_vars

----------------------------------------------------------------------------
(* Properties of the end of a battle (battle specification) *)

VictoryNotice(to, winner) ==
    Msg(CONNECTIONS[to], "battle", <<"victory", winner>>)

VictorySent == \E i \in DOMAIN sent : sent[i].body[1] = "victory"

(* C11: when an attack has brought the roster of a participant to size 0,
   both participants are sent the victory notice that names the other
   participant. *)
C11_EmptyRosterEndsBattle ==
    (/\ last.op = "attack"
     /\ "hit" \in last.outcome
     /\ alive
     /\ (pokeBalls_P1 = <<>> \/ pokeBalls_P2 = <<>>)) =>
        LET winner == IF pokeBalls_P1 = <<>> THEN P2 ELSE P1
        IN  /\ \E i \in DOMAIN sent : sent[i] = VictoryNotice(P1, winner)
            /\ \E i \in DOMAIN sent : sent[i] = VictoryNotice(P2, winner)

(* C12: after a surrender has sent the victory notice and has initiated no
   new battle, a roster submission, attack or switch changes no roster, no
   active-slot index and not the turn owner, and sends no message. *)
C12_ConcludedBattleRejectsActions ==
    [][(/\ last.op = "surrender"
        /\ VictorySent
        /\ "battle" \notin last.outcome
        /\ last'.op \in {"submit", "attack", "switch"}) =>
          /\ UNCHANGED <<pokeBalls_P1, pokeBalls_P2, currentDefIndex_P1,
                         currentDefIndex_P2, player1Turn>>
          /\ sent' = <<>>]_vars

(* C13: an attack or a switch sent by the participant who does not own the
   turn changes neither roster, neither active-slot index and not the turn
   owner. *)
C13_OutOfTurnIsNoOp ==
    [][\A name \in BattleNames, slot \in 0..MaxSlot :
          (/\ name /= TurnOwner
           /\ Switch(name, slot) \/ Attack(name, slot)) =>
             UNCHANGED <<pokeBalls_P1, pokeBalls_P2, currentDefIndex_P1,
                         currentDefIndex_P2, player1Turn>>]_vars

(* C14: a roster never holds more than 3 creatures. *)
C14_RosterAtMostThree ==
    Len(pokeBalls_P1) <= 3 /\ Len(pokeBalls_P2) <= 3

(* C15: when a participant of the battle surrenders on its own connection,
   the first two messages written are the victory notice to P1 and the
   same notice to P2, and the notice names the other participant. *)
C15_SurrenderNamesOpponent ==
    [][(/\ last'.op = "surrender"
        /\ last'.name \in {P1, P2}
        /\ CONNECTIONS[last'.name] = last'.conn) =>
          LET winner == IF last'.name = P1 THEN P2 ELSE P1
          IN  /\ winner /= last'.name
              /\ Len(sent') >= 2
              /\ sent'[1] = VictoryNotice(P1, winner)
              /\ sent'[2] = VictoryNotice(P2, winner)]_vars

(* "gary", the second participant, has surrendered and "ash" was named
   the winner to both *)
C15_Witness ==
    /\ last.op = "surrender"
    /\ last.name = "gary"
    /\ last.conn = CONNECTIONS["gary"]
    /\ sent[1] = VictoryNotice("ash", "ash")
    /\ sent[2] = VictoryNotice("gary", "ash")
    /\ P2 = "gary"

----------------------------------------------------------------------------
(* Properties of the registry and of the process (world specification) *)

(* the latest step called Write on the nil value a lookup of CONNECTIONS
   returns for a missing key (the panics of the model other than the
   index out of range of a catch) *)
WroteToMissingEntry ==
    "panic" \in last.outcome /\ "catch" \notin last.outcome

(* C16: once a participant of the current battle is no longer in the
   registry, no step writes to its missing registry entry. *)
C16_NoSendAfterUnregister ==
    \A X \in {P1, P2} \cap Users :
        X \notin DOMAIN CONNECTIONS => ~WroteToMissingEntry

(* C17: a disconnect of a registered identity X removes exactly the entries
   of X: its marks in the grid and its entries of the identity index are
   gone, every other cell and entry and the creature index are unchanged. *)
C17_DisconnectRemovesOnlyX ==
    [][(last'.op = "disconnect" /\ last'.name \in Users) =>
          /\ \A k \in Keys :
                 BOARD'[k] = IF BOARD[k] = last'.name THEN "" ELSE BOARD[k]
          /\ PLAYER_LOCATIONS' =
                 [k \in {x \in DOMAIN PLAYER_LOCATIONS :
                            PLAYER_LOCATIONS[x] /= last'.name}
                     |-> PLAYER_LOCATIONS[k]]
          /\ UNCHANGED POKEMON_LOCATIONS]_vars

(* C18: no event of a connection terminates the server process. *)
C18_ServerKeepsRunning == alive

----------------------------------------------------------------------------
(* Properties of the battle state (specification of two pairs, battle
   specification) *)

(* C19: the initiation of a battle of another pair leaves the participants,
   rosters, active-slot indices and turn owner of the battle in progress
   unchanged. *)
C19_PairsAreIndependent ==
    [][(/\ last'.op = "move"
        /\ "battle" \in last'.outcome
        /\ "panic" \notin last'.outcome
        /\ {P1', P2'} /= {P1, P2}) =>
          UNCHANGED battleVars]_vars

(* C20: every catalog template keeps its startup stats. *)
C20_CatalogImmutable == POKEMONS = Catalog

----------------------------------------------------------------------------
(* Properties of attacks, switches and the start of a battle (battle
   specification) *)

Waiting == IF player1Turn THEN P2 ELSE P1

(* the step wrote an attack result to the participant who was attacked *)
AttackedSentToDefender ==
    \E i \in DOMAIN sent' :
        /\ sent'[i].to = CONNECTIONS[Waiting]
        /\ sent'[i].body[1] = "attacked"

(* C21: with creatures in both rosters, an attack never passes the turn
   without the attack result having been written to the defender in the
   same step. *)
C21_TurnPassesOnlyWithAttackResult ==
    [][(/\ last'.op = "attack"
        /\ pokeBalls_P1 /= <<>>
        /\ pokeBalls_P2 /= <<>>
        /\ player1Turn' /= player1Turn) =>
          AttackedSentToDefender]_vars

(* C22: a switch sent by the turn owner sets the active-slot index of the
   turn owner to the given slot and changes neither the turn owner, nor a
   roster, nor the active-slot index of the other participant. *)
C22_SwitchSetsOwnIndexOnly ==
    [][last'.op = "switch" =>
          \A slot \in 0..MaxSlot :
              Switch(TurnOwner, slot) =>
                 /\ IF player1Turn
                    THEN currentDefIndex_P1' = slot
                         /\ UNCHANGED currentDefIndex_P2
                    ELSE currentDefIndex_P2' = slot
                         /\ UNCHANGED currentDefIndex_P1
                 /\ UNCHANGED <<pokeBalls_P1, pokeBalls_P2, player1Turn,
                                P1, P2>>]_vars

(* with three creatures in each roster, "ash" owns the turn and has
   switched to slot 1 *)
C22_Witness ==
    /\ last.op = "switch"
    /\ player1Turn
    /\ currentDefIndex_P1 = 1
    /\ currentDefIndex_P2 = 0
    /\ Len(pokeBalls_P1) = 3
    /\ Len(pokeBalls_P2) = 3

(* the step wrote the turn notice to one participant and the wait notice
   to the other *)
BeginNoticesSent ==
    \E owner \in {P1, P2} :
        LET other == IF owner = P1 THEN P2 ELSE P1
        IN  sent' = <<Msg(CONNECTIONS[owner], "battle", <<"turn", owner>>),
                     Msg(CONNECTIONS[other], "battle", <<"wait", "">>)>>

(* C23: a roster submission writes the turn notice and the wait notice
   when both rosters hold 3 creatures after it, and writes nothing
   otherwise, whatever the order of the submissions was. *)
C23_BeginsWhenBothRostersHoldThree ==
    [][last'.op = "submit" =>
          IF Len(pokeBalls_P1') = 3 /\ Len(pokeBalls_P2') = 3
          THEN BeginNoticesSent
          ELSE sent' = <<>>]_vars

(* the battle has begun by a submission of "gary" after "ash" had
   completed its roster with two different creatures *)
C23_Witness ==
    /\ last.op = "submit"
    /\ "begin" \in last.outcome
    /\ Len(pokeBalls_P1) = 3
    /\ Len(pokeBalls_P2) = 3
    /\ pokeBalls_P1[1] /= pokeBalls_P1[2]
    /\ Len(sent) = 2
    /\ alive

----------------------------------------------------------------------------
(* Properties of a catch (world specification) *)

(* the step handled a message of a logged-in player that met a creature *)
CatchStep ==
    /\ last'.op \in {"move", "surrender"}
    /\ "catch" \in last'.outcome
    /\ UsernameOf(last'.conn) \in Users

Mover == UsernameOf(last'.conn)

(* C24: whenever a step has appended a caught creature and has written
   the acknowledgement of the catch to the mover, players.json holds the
   account list with the newly owned creature of the mover. *)
C24_PersistedBeforeAcknowledged ==
    [][(CatchStep /\ CatchSent /\ "panic" \notin last'.outcome) =>
          /\ players_json' = PLAYERS'
          /\ Len(players_json'[Mover]) = Len(players_json[Mover]) + 1]_vars

(* C25: the creature a catch appends to the owned creatures of the mover is
   the catalog template whose id is the id of the creature that occupied
   the target cell. *)
C25_CaughtTemplateHasCreatureId ==
    [][CatchStep =>
          /\ Len(PLAYERS'[Mover]) = Len(PLAYERS[Mover]) + 1
          /\ POKEMONS[PLAYERS'[Mover][Len(PLAYERS'[Mover])]].ID
                = POKEMON_LOCATIONS[last'.key]]_vars

(* C26: after a movement message that has ended in a catch, the mover is
   indexed at the target coordinate and the snapshot of the identity index
   written in the same step holds the mover at that coordinate. *)
C26_CatchRecordsMover ==
    [][(CatchStep /\ last'.op = "move" /\ alive') =>
          /\ last'.key \in DOMAIN PLAYER_LOCATIONS'
          /\ PLAYER_LOCATIONS'[last'.key] = Mover
          /\ \E i \in DOMAIN sent' :
                 /\ sent'[i].kind = "playerlocs"
                 /\ last'.key \in DOMAIN sent'[i].body
                 /\ sent'[i].body[last'.key] = Mover]_vars

----------------------------------------------------------------------------
(* Properties of a despawn tick that meets a vacated coordinate (world
   specification) *)

(* the number of entries of the queue that name coordinate k *)
QueuedTimes(k) ==
    Cardinality({i \in DOMAIN despawnQueues : despawnQueues[i] = k})

(* the oldest queue entry of k is stale: the creature it was queued for
   has left the coordinate (every spawn queues one entry and indexes one
   creature, only a catch removes the creature and keeps the entry) *)
Vacated(k) ==
    QueuedTimes(k) > (IF k \in DOMAIN POKEMON_LOCATIONS THEN 1 ELSE 0)

(* C27: a despawn tick that runs pops the N oldest queue entries, and for
   a coordinate of the batch whose creature was already caught it removes
   nothing that is there now: the cell and the creature index at that
   coordinate are unchanged. *)
C27_DespawnIsIdempotent ==
    [][(last'.op = "despawn" /\ "skipped" \notin last'.outcome) =>
          /\ despawnQueues' = SubSeq(despawnQueues, NUMBERTOPROCESS + 1,
                                     Len(despawnQueues))
          /\ \A i \in 1..NUMBERTOPROCESS :
                 Vacated(despawnQueues[i]) =>
                    /\ BOARD'[despawnQueues[i]] = BOARD[despawnQueues[i]]
                    /\ despawnQueues[i] \in DOMAIN POKEMON_LOCATIONS'
                          <=> despawnQueues[i] \in DOMAIN POKEMON_LOCATIONS]_vars

----------------------------------------------------------------------------
(* Properties of a failed send (world specification) *)

(* C28: a step that writes to the connection of a registered identity X on
   which the Write returns an error removes X from the registry and from
   the identity index and writes the quit notice of X. *)
C28_FailedSendCleansUp ==
    [][\A i \in DOMAIN sent' :
          (/\ sent'[i].to \in broken
           /\ UsernameOf(sent'[i].to) \in Users) =>
             LET X == UsernameOf(sent'[i].to)
             IN  /\ X \notin DOMAIN CONNECTIONS'
                 /\ \A k \in DOMAIN PLAYER_LOCATIONS' :
                        PLAYER_LOCATIONS'[k] /= X
                 /\ \E j \in DOMAIN sent' :
                        sent'[j].kind = "quit" /\ sent'[j].body = X]_vars

----------------------------------------------------------------------------
(* Properties of the client's reads (reader specification) *)

(* what the client has handled after it has read a document alone: its
   pairs in some order *)
HandledAlone(doc) ==
    {[i \in DOMAIN o |-> doc[o[i]]] :
        o \in {p \in [DOMAIN doc -> DOMAIN doc] :
                  \A i, j \in DOMAIN doc : i /= j => p[i] /= p[j]}}

(* the client has no data left to read, or has left its read loop *)
ReaderDone == wire = <<>> \/ ~reading

(* C29: when the client is done with the data of two documents written
   back-to-back, it is still reading and has handled every pair of the
   first document and then every pair of the second, whether the
   documents came in one read or in two. *)
C29_ConcatenatedReadIsTolerated ==
    ReaderDone =>
       /\ reading
       /\ \E h1 \in HandledAlone(written[1]), h2 \in HandledAlone(written[2]) :
              handled = h1 \o h2

----------------------------------------------------------------------------
(* Properties of the active-slot indices (specification of a battle in
   progress) *)

ValidIndex(index, team) == team /= <<>> => (0 <= index /\ index < Len(team))

(* C30: in a battle in progress the active-slot index of each participant
   is an index of that participant's roster whenever the roster holds a
   creature. *)
C30_ActiveSlotIsValid ==
    /\ ValidIndex(currentDefIndex_P1, pokeBalls_P1)
    /\ ValidIndex(currentDefIndex_P2, pokeBalls_P2)

----------------------------------------------------------------------------
(* Properties of battle messages outside their phase *)

(* C31: an attack or a switch handled while a roster holds fewer than 3
   creatures changes no roster, no HP, no active-slot index and not the
   turn owner. *)
C31_NoActionInRosterSelection ==
    [][(/\ last'.op \in {"attack", "switch"}
        /\ (Len(pokeBalls_P1) < 3 \/ Len(pokeBalls_P2) < 3)) =>
          UNCHANGED <<pokeBalls_P1, pokeBalls_P2, POKEMONS,
                      currentDefIndex_P1, currentDefIndex_P2,
                      player1Turn>>]_vars

(* C32: once both rosters hold 3 creatures and no roster has shrunk, the
   battle has begun; a message of the roster-submission form handled then
   writes no turn and no wait notice and leaves the turn owner. *)
C32_BattleBeginsOnce ==
    [][(/\ last'.op = "submit"
        /\ Len(pokeBalls_P1) = 3
        /\ Len(pokeBalls_P2) = 3) =>
          /\ sent' = <<>>
          /\ UNCHANGED player1Turn]_vars

(* C33: a surrender message changes neither the grid, nor the creature
   index, nor the identity index, nor the owned creatures of an account,
   and ends in no catch and in no battle initiation. *)
C33_SurrenderChangesBattleStateOnly ==
    [][last'.op = "surrender" =>
          /\ UNCHANGED <<BOARD, POKEMON_LOCATIONS, PLAYER_LOCATIONS,
                         PLAYERS>>
          /\ "catch" \notin last'.outcome
          /\ "battle" \notin last'.outcome]_vars

----------------------------------------------------------------------------
(* Properties of the scheduler (world specification with scheduling) *)

(* the ticks the model follows have been used up, or the process is gone *)
TicksOver == nTicks = MaxTicks \/ ~alive

(* C34: with both timers firing, a creature indexed at a coordinate is
   removed from the creature index again, as long as the process runs and
   ticks remain. *)
C34_EveryCreatureLeaves ==
    \A k \in Keys :
        (k \in DOMAIN POKEMON_LOCATIONS)
            ~> (k \notin DOMAIN POKEMON_LOCATIONS \/ TicksOver)

(* no step can write "" to a cell of BOARD any more: the grid is full, no
   creature is indexed that a catch could remove, and no despawn tick will
   clear a cell (the scheduler worker is inside a spawn tick, or the queue
   is empty and a spawn tick would find no cell) *)
FullForever ==
    /\ EmptyCells(BOARD) = {}
    /\ DOMAIN POKEMON_LOCATIONS = {}
    /\ (schedPc = "hung" \/ despawnQueues = <<>>)

(* a spawn tick or a login placement is searching for an empty cell *)
Searching == schedPc = "hung" \/ \E c \in Conns : connState[c] = "hung"

(* the coordinates at which a creature or an identity is indexed *)
IndexedCells == DOMAIN POKEMON_LOCATIONS \cup DOMAIN PLAYER_LOCATIONS

(* C35: while the cells occupied by indexed creatures and identities leave
   room for a spawn batch, no spawn tick and no login placement searches
   for an empty cell in a grid that stays full forever. *)
C35_PlacementTerminates ==
    Cardinality(IndexedCells) <= ROWS * COLS - NUMBERTOPROCESS =>
        ~(Searching /\ FullForever)

====
